---- MODULE Spec2Model ----
(***************************************************************************)
(* Model of `upgrade` (src/src/subcommands/upgrade.rs): the resolution of  *)
(* every mod of a profile by one spawned task per mod, the reconciliation  *)
(* of the output directory against the resolved files, the download tasks  *)
(* and the installation of the files of the `user` folder.                 *)
(***************************************************************************)
EXTENDS Naturals, Sequences, FiniteSets, TLC

VARIABLES
    mods,                 \* profile.mods: the mod identifiers, in profile order
    mod_loader,           \* profile.mod_loader
    pc,                   \* position of `upgrade`
    idx,                  \* index of the running `for` loop of `upgrade`
    tasks,                \* the resolution tasks, one per spawned mod
    to_download,          \* the Vec<Downloadable> behind the mutex
    error,                \* AtomicBool error
    backwards_compat_msg, \* AtomicBool backwards_compat_msg
    notice_printed,       \* the Quilt backwards compatibility notice was printed
    to_install,           \* Vec of the file names found in `user`
    root,                 \* regular files of output_dir: name -> content
    user_exists,          \* output_dir/user exists
    user_files,           \* regular files of output_dir/user
    old_files,            \* files of output_dir/.old
    root0,                \* the regular files of output_dir when upgrade began
    old0,                 \* the files of output_dir/.old when upgrade began
    pending,              \* directory entries of output_dir not yet visited
    dl_tasks,             \* the download tasks, one per spawned Downloadable
    fetched,              \* download_urls requested by the download tasks
    resolved,             \* the Vec<Downloadable> as Arc::try_unwrap returned it
    ret                   \* what upgrade returned ("none": still running)

vars == <<mods, mod_loader, pc, idx, tasks, to_download, error,
          backwards_compat_msg, notice_printed, to_install, root, user_exists,
          user_files, old_files, root0, old0, pending, dl_tasks, fetched,
          resolved, ret>>

\* Longest profile.mods explored.
MaxMods == 2

----------------------------------------------------------------------------
(* The platforms' catalogs, as seen through libium::upgrade.               *)

\* ModIdentifier values a profile may hold: one project per platform.
Identifiers == {"CurseForgeProject:1", "ModrinthProject:1", "GitHubRepository:1"}

Platform(id) ==
    CASE id \in {"CurseForgeProject:1", "CurseForgeProject:2"} -> "CurseForge"
      [] id = "ModrinthProject:1" -> "Modrinth"
      [] OTHER -> "GitHub"

ModLoaders == {"Quilt", "Forge"}

\* Projects the latest file of a project declares as required dependencies.
\* CurseForgeProject:2 is in no profile explored.
Dependencies(id) ==
    IF id = "CurseForgeProject:1" THEN {"CurseForgeProject:2"} ELSE {}

Url(id, name) == [project |-> id, file |-> name]

\* furse File values upgrade::curseforge may return for a project.
CurseForgeFiles(id) ==
    {[file_name |-> "a.jar", download_url |-> Url(id, "a.jar"),
      dependencies |-> Dependencies(id)]}

\* ferinth Version values upgrade::modrinth may return for a project:
\* one whose primary file comes second, one with no primary file.
\* (Every version holds at least one file.)
ModrinthVersions(id) ==
    {[files |-> <<[filename |-> "a-sources.jar", url |-> Url(id, "a-sources.jar"),
                   primary |-> FALSE],
                  [filename |-> "a.jar", url |-> Url(id, "a.jar"),
                   primary |-> TRUE]>>,
      dependencies |-> Dependencies(id)],
     [files |-> <<[filename |-> "b.jar", url |-> Url(id, "b.jar"),
                   primary |-> FALSE],
                  [filename |-> "b-sources.jar", url |-> Url(id, "b-sources.jar"),
                   primary |-> FALSE]>>,
      dependencies |-> Dependencies(id)]}

\* octocrab Asset values upgrade::github may return for a repository.
GitHubAssets(id) ==
    {[name |-> "b.jar", browser_download_url |-> Url(id, "b.jar")]}

\* upgrade::Error values of a platform's fetch.
FetchErrors(platform) ==
    IF platform = "CurseForge"
    THEN {"NoCompatibleFile", "HttpStatus", "Transport"}
    ELSE {"NoCompatibleFile", "RateLimited"}

----------------------------------------------------------------------------
(* Downloadable and its conversions.                                       *)

Downloadable(filename, download_url) ==
    [filename |-> filename, download_url |-> download_url]

NoDownloadable == Downloadable("", Url("", ""))

FromFile(file) == Downloadable(file.file_name, file.download_url)

\* Index of the first primary file from position i on, 0 when none is.
RECURSIVE FirstPrimary(_, _)
FirstPrimary(files, i) ==
    IF i > Len(files) THEN 0
    ELSE IF files[i].primary THEN i
    ELSE FirstPrimary(files, i + 1)

FromVersion(version) ==
    LET p == FirstPrimary(version.files, 1)
        file == IF p # 0 THEN version.files[p] ELSE version.files[1]
    IN  Downloadable(file.filename, file.url)

FromAsset(asset) == Downloadable(asset.name, asset.browser_download_url)

\* Result<Downloadable, upgrade::Error>
OkResult(d) == [tag |-> "Ok", value |-> d, err |-> ""]
ErrResult(e) == [tag |-> "Err", value |-> NoDownloadable, err |-> e]
NoResult == [tag |-> "None", value |-> NoDownloadable, err |-> ""]

\* The results of one platform fetch `.map(Into::into)`. The files a platform
\* offers here do not depend on the loader asked for.
Fetch(id, loader) ==
    LET platform == Platform(id)
        oks == CASE platform = "CurseForge" ->
                      {OkResult(FromFile(f)) : f \in CurseForgeFiles(id)}
                 [] platform = "Modrinth" ->
                      {OkResult(FromVersion(v)) : v \in ModrinthVersions(id)}
                 [] OTHER ->
                      {OkResult(FromAsset(a)) : a \in GitHubAssets(id)}
    IN  oks \cup {ErrResult(e) : e \in FetchErrors(platform)}

\* The project a Downloadable's file belongs to.
ItemOf(d) == d.download_url.project

----------------------------------------------------------------------------
(* Resolution: one spawned task per mod of the profile.                    *)

Profiles == UNION {[1..n -> Identifiers] : n \in 0..MaxMods}

\* Names the files of the output directory may bear when upgrade begins.
LocalNames == {"a.jar", "stale.jar"}
\* Every file name of the model.
Names == LocalNames \cup {"a.jar", "b.jar", "a-sources.jar", "b-sources.jar"}

\* A task not yet spawned. first and last are what its first and its latest
\* fetch returned, fetches the number of fetches it has issued.
NewTask == [pc |-> "unspawned", loader |-> "", result |-> NoResult,
            backwards_compat |-> FALSE, fetches |-> 0,
            first |-> NoResult, last |-> NoResult]

Init ==
    /\ mods \in Profiles
    /\ mod_loader \in ModLoaders
    /\ pc = "spawn"
    /\ idx = 1
    /\ tasks = [t \in 1..Len(mods) |-> NewTask]
    /\ to_download = <<>>
    /\ error = FALSE
    /\ backwards_compat_msg = FALSE
    /\ notice_printed = FALSE
    /\ to_install = <<>>
    /\ root0 = {}
    /\ root = [n \in Names |-> "absent"]
    /\ user_exists = FALSE
    /\ user_files = {}
    /\ old0 = {}
    /\ old_files = {}
    /\ pending = {}
    /\ dl_tasks = <<>>
    /\ fetched = {}
    /\ resolved = <<>>
    /\ ret = "none"

resolutionVars == <<mods, mod_loader, tasks, to_download, error,
                    backwards_compat_msg, notice_printed>>
fsVars == <<root, user_exists, user_files, old_files, root0, old0>>
syncVars == <<to_install, pending, dl_tasks, fetched, resolved>>

\* for mod_ in &profile.mods { tasks.push(spawn(..)) }: one iteration.
Spawn ==
    /\ pc = "spawn" /\ idx <= Len(mods)
    /\ tasks' = [tasks EXCEPT ![idx] =
                    [NewTask EXCEPT !.pc = "fetch1", !.loader = mod_loader,
                                    !.fetches = 1]]
    /\ idx' = idx + 1
    /\ UNCHANGED <<mods, mod_loader, pc, to_download, error,
                   backwards_compat_msg, notice_printed, ret>>
    /\ UNCHANGED <<fsVars, syncVars>>

EndSpawn ==
    /\ pc = "spawn" /\ idx > Len(mods)
    /\ pc' = "join" /\ idx' = 1
    /\ UNCHANGED <<resolutionVars, fsVars, syncVars, ret>>

\* A fallback test that leaves out the profile's loader.
NeedsFabricFallback_AnyLoader(result, loader) ==
    result.tag = "Err" /\ result.err = "NoCompatibleFile"

\* matches!(result, Err(NoCompatibleFile)) && profile.mod_loader == Quilt
NeedsFabricFallback(result, loader) ==
    result.tag = "Err" /\ result.err = "NoCompatibleFile" /\ loader = "Quilt"

\* Err(CurseForgeError(ReqwestError(err))) with err.is_status(), an arm the
\* CurseForge branch alone has.
IsStatusError(platform, result) ==
    platform = "CurseForge" /\ result.tag = "Err" /\ result.err = "HttpStatus"

\* What a task does with the result of its first fetch.
AfterFirstFetch(platform, loader, result) ==
    IF NeedsFabricFallback(result, loader) THEN "fabric"
    ELSE IF IsStatusError(platform, result) THEN "retry"
    ELSE "match"

\* The first platform fetch of task t returns; a Fabric fallback or a retry
\* issues the second fetch.
TaskFetch1(t) ==
    /\ ret = "none"
    /\ tasks[t].pc = "fetch1"
    /\ \E result \in Fetch(mods[t], tasks[t].loader) :
         LET next == AfterFirstFetch(Platform(mods[t]), mod_loader, result) IN
         tasks' = [tasks EXCEPT ![t] =
            CASE next = "fabric" ->
                   [@ EXCEPT !.pc = "fetch2", !.loader = "Fabric",
                             !.backwards_compat = TRUE, !.fetches = @ + 1,
                             !.first = result, !.last = result]
              [] next = "retry" ->
                   [@ EXCEPT !.pc = "fetch2", !.fetches = @ + 1,
                             !.first = result, !.last = result]
              [] OTHER ->
                   [@ EXCEPT !.pc = "match", !.result = result,
                             !.first = result, !.last = result]]
    /\ UNCHANGED <<mods, mod_loader, pc, idx, to_download, error,
                   backwards_compat_msg, notice_printed, ret>>
    /\ UNCHANGED <<fsVars, syncVars>>

\* A second fetch whose status error is retried again.
AfterSecondFetch_RetryAgain(platform, loader, result) ==
    IF IsStatusError(platform, result) THEN "retry" ELSE "match"

\* What a task does with the result of its second fetch: the tuple is built
\* from it whatever it is.
AfterSecondFetch(platform, loader, result) == "match"

\* The result of the tuple a task builds after a second fetch.
ResultAfterSecondFetch(first, second) == second

\* The second platform fetch of task t (Fabric fallback or retry) returns.
TaskFetch2(t) ==
    /\ ret = "none"
    /\ tasks[t].pc = "fetch2"
    /\ \E result \in Fetch(mods[t], tasks[t].loader) :
         LET next == AfterSecondFetch(Platform(mods[t]), mod_loader, result) IN
         tasks' = [tasks EXCEPT ![t] =
            IF next = "match"
            THEN [@ EXCEPT !.pc = "match", !.last = result,
                           !.result = ResultAfterSecondFetch(tasks[t].first, result)]
            ELSE [@ EXCEPT !.fetches = @ + 1, !.last = result]]
    /\ UNCHANGED <<mods, mod_loader, pc, idx, to_download, error,
                   backwards_compat_msg, notice_printed, ret>>
    /\ UNCHANGED <<fsVars, syncVars>>

\* A push onto a copy of the Vec read before the other tasks pushed.
Push_LostUpdate(vec, d) == <<d>>

\* to_download.force_lock().push(result)
Push(vec, d) == Append(vec, d)

\* An Err arm that leaves the flag as it found it.
ErrorAfterFailure_Unset(flag, result) == flag

\* error.store(true) of the Err arm
ErrorAfterFailure(flag, result) == TRUE

\* match result { Ok(..) => .., Err(..) => .. } of task t, which ends the task.
TaskMatch(t) ==
    /\ ret = "none"
    /\ tasks[t].pc = "match"
    /\ LET result == tasks[t].result IN
       IF result.tag = "Ok"
       THEN /\ backwards_compat_msg' =
                  (backwards_compat_msg \/ tasks[t].backwards_compat)
            /\ to_download' = Push(to_download, result.value)
            /\ UNCHANGED error
       ELSE /\ error' = ErrorAfterFailure(error, result)
            /\ UNCHANGED <<to_download, backwards_compat_msg>>
    /\ tasks' = [tasks EXCEPT ![t].pc = "done"]
    /\ UNCHANGED <<mods, mod_loader, pc, idx, notice_printed, ret>>
    /\ UNCHANGED <<fsVars, syncVars>>

\* A handle that is only ever ready for a task that pushed a Downloadable.
JoinReady_OnlyAfterPush(t) == tasks[t].pc = "done" /\ tasks[t].result.tag = "Ok"

\* A handle that is ready whether or not its task has ended.
JoinReady_NoWait(t) == TRUE

\* handle.await of a resolution task returns once the task has ended.
JoinReady(t) == tasks[t].pc = "done"

\* for handle in tasks { handle.await?; }: one iteration.
Join ==
    /\ pc = "join" /\ idx <= Len(mods)
    /\ JoinReady(idx)
    /\ idx' = idx + 1
    /\ UNCHANGED <<resolutionVars, pc, ret>>
    /\ UNCHANGED <<fsVars, syncVars>>

\* Arc::try_unwrap(to_download).expect(..) and the backwards compatibility
\* notice. try_unwrap fails while a task still holds its clone of the Arc.
\* The join loop has consumed the handles: the ended tasks are no more.
Unwrap ==
    /\ pc = "join" /\ idx > Len(mods)
    /\ IF \A t \in 1..Len(mods) : tasks[t].pc = "done"
       THEN /\ pc' = "scan_user"
            /\ notice_printed' = backwards_compat_msg
            /\ tasks' = <<>>
            /\ resolved' = to_download
            /\ ret' = ret
       ELSE /\ pc' = "returned"
            /\ ret' = "Panic"
            /\ UNCHANGED <<notice_printed, tasks, resolved>>
    /\ UNCHANGED <<mods, mod_loader, idx, to_download, error,
                   backwards_compat_msg>>
    /\ UNCHANGED <<fsVars, to_install, pending, dl_tasks, fetched>>

----------------------------------------------------------------------------
(* Reconciliation of the output directory, downloads and installation.     *)

\* Every order read_dir may list a set of names in.
Orders(S) ==
    {seq \in [1..Cardinality(S) -> S] : \A n \in S : \E i \in DOMAIN seq : seq[i] = n}

\* The output directory is the user's: upgrade looks at it first when the
\* resolution is over, and whatever it holds then is what upgrade began with.
\* FoundDirectories are the contents it may be found with.
FoundDirectories ==
    {found \in [root : SUBSET LocalNames, user_exists : BOOLEAN,
                user : SUBSET LocalNames, old : SUBSET {"stale.jar"}] :
        found.user_exists \/ found.user = {}}

\* The files of `user` are gathered into to_install, then read_dir(output_dir)
\* is opened. Either read_dir may fail.
ScanUser ==
    /\ pc = "scan_user"
    /\ \E found \in FoundDirectories :
         /\ root0' = found.root
         /\ root' = [n \in Names |-> IF n \in found.root THEN "original" ELSE "absent"]
         /\ user_exists' = found.user_exists
         /\ user_files' = found.user
         /\ old0' = found.old
         /\ old_files' = found.old
    /\ \E io_ok \in BOOLEAN :
         IF io_ok
         THEN /\ to_install' \in
                   (IF user_exists' THEN Orders(user_files') ELSE {<<>>})
              /\ pending' = root0'
              /\ pc' = "reconcile"
              /\ ret' = ret
         ELSE /\ pc' = "returned"
              /\ ret' = "IoError"
              /\ UNCHANGED <<to_install, pending>>
    /\ UNCHANGED <<resolutionVars, idx, dl_tasks, fetched, resolved>>

\* Position (from 1) of the first Downloadable of vec named filename, 0 if none.
RECURSIVE FindDownloadable(_, _, _)
FindDownloadable(vec, filename, i) ==
    IF i > Len(vec) THEN 0
    ELSE IF vec[i].filename = filename THEN i
    ELSE FindDownloadable(vec, filename, i + 1)

\* A search whose predicate accepts the first entry whatever its name.
FindInstallable_AnyName(vec, filename, i) == IF i > Len(vec) THEN 0 ELSE i

\* Position (from 1) of the first entry of to_install named filename, 0 if none.
RECURSIVE FindInstallable(_, _, _)
FindInstallable(vec, filename, i) ==
    IF i > Len(vec) THEN 0
    ELSE IF vec[i] = filename THEN i
    ELSE FindInstallable(vec, filename, i + 1)

\* A removal that drops the last element whatever the position asked for.
SwapRemove_DropsLast(vec, i) == SubSeq(vec, 1, Len(vec) - 1)

\* Vec::swap_remove: the last element takes the place of the removed one.
SwapRemove(vec, i) ==
    [k \in 1..(Len(vec) - 1) |-> IF k = i THEN vec[Len(vec)] ELSE vec[k]]

\* fs_extra move_file(output_dir/f, output_dir/.old/f, &CopyOptions::new()):
\* the <<root, old_files>> it may leave. It copies, then removes the source;
\* it neither overwrites nor skips an existing destination but fails.
MoveFile(dir, old, f) ==
    IF f \in old
    THEN {<<dir, old>>}
    ELSE {<<dir, old>>,
          <<dir, old \cup {f}>>,
          <<[dir EXCEPT ![f] = "absent"], old \cup {f}>>}

\* One entry of read_dir(output_dir) that is a regular file.
ReconcileEntry(f) ==
    /\ pc = "reconcile"
    /\ f \in pending
    /\ pending' = pending \ {f}
    /\ \E io_ok \in BOOLEAN :
         IF ~io_ok
         THEN /\ pc' = "returned"
              /\ ret' = "IoError"
              /\ UNCHANGED <<to_download, to_install, root, old_files>>
         ELSE /\ UNCHANGED <<pc, ret>>
              /\ LET d == FindDownloadable(to_download, f, 1)
                     i == FindInstallable(to_install, f, 1)
                 IN  IF d # 0
                     THEN /\ to_download' = SwapRemove(to_download, d)
                          /\ UNCHANGED <<to_install, root, old_files>>
                     ELSE IF i # 0
                     THEN /\ to_install' = SwapRemove(to_install, i)
                          /\ UNCHANGED <<to_download, root, old_files>>
                     ELSE /\ \E moved \in MoveFile(root, old_files, f) :
                               root' = moved[1] /\ old_files' = moved[2]
                          /\ UNCHANGED <<to_download, to_install>>
    /\ UNCHANGED <<mods, mod_loader, tasks, error, backwards_compat_msg,
                   notice_printed, idx, dl_tasks, fetched, resolved>>
    /\ UNCHANGED <<user_exists, user_files, root0, old0>>

EndReconcile ==
    /\ pc = "reconcile" /\ pending = {}
    /\ pc' = "spawn_download" /\ idx' = idx
    /\ UNCHANGED <<resolutionVars, fsVars, syncVars, ret>>

\* for downloadable in to_download { tasks.push(spawn(..)) }: the loop awaits
\* nothing and writes nothing a task reads, so it is taken in one step.
SpawnDownloads ==
    /\ pc = "spawn_download"
    /\ dl_tasks' = [k \in DOMAIN to_download |->
                      [pc |-> "get", failed |-> FALSE,
                       downloadable |-> to_download[k]]]
    /\ pc' = "join_download" /\ idx' = 1
    /\ UNCHANGED <<resolutionVars, fsVars, to_install, pending, fetched,
                   resolved, ret>>

\* upgrade::write_mod_file(&profile, contents, &downloadable.filename):
\* the contents are written to output_dir/filename.
WriteModFile(dir, filename) == [dir EXCEPT ![filename] = "downloaded"]

\* A download task: reqwest::get(&downloadable.download_url).await?.bytes()
\* .await?, then write_mod_file(..).await?. The request changes nothing the
\* other tasks or upgrade read, so the task is taken in one step: the request
\* fails, or the write fails, or the file is written.
Download(k) ==
    /\ ret = "none"
    /\ k \in DOMAIN dl_tasks
    /\ dl_tasks[k].pc = "get"
    /\ fetched' = fetched \cup {dl_tasks[k].downloadable.download_url}
    /\ \E outcome \in {"get failed", "write failed", "written"} :
         IF outcome = "written"
         THEN /\ root' = WriteModFile(root, dl_tasks[k].downloadable.filename)
              /\ dl_tasks' = [dl_tasks EXCEPT ![k].pc = "done"]
         ELSE /\ dl_tasks' = [dl_tasks EXCEPT ![k] =
                                 [@ EXCEPT !.pc = "done", !.failed = TRUE]]
              /\ UNCHANGED root
    /\ UNCHANGED <<resolutionVars, to_install, pending, pc, idx, ret, resolved>>
    /\ UNCHANGED <<user_exists, user_files, old_files, root0, old0>>

\* A join that drops the task's error, as a single `?` on the handle would.
HandleFailed_Dropped(task) == FALSE

\* for handle in tasks { handle.await??; }: one iteration.
\* handle.await?? of a download task returns the task's error.
HandleFailed(task) == task.failed

JoinDownload ==
    /\ pc = "join_download" /\ idx <= Len(dl_tasks)
    /\ dl_tasks[idx].pc = "done"
    /\ IF HandleFailed(dl_tasks[idx])
       THEN pc' = "returned" /\ ret' = "DownloadError" /\ idx' = idx
       ELSE idx' = idx + 1 /\ UNCHANGED <<pc, ret>>
    /\ UNCHANGED <<resolutionVars, fsVars, syncVars>>

EndJoinDownload ==
    /\ pc = "join_download" /\ idx > Len(dl_tasks)
    /\ pc' = "install" /\ idx' = 1
    /\ UNCHANGED <<resolutionVars, fsVars, syncVars, ret>>

\* copy(installable.1, profile.output_dir.join(installable.0))
CopyToRoot(dir, name) == [dir EXCEPT ![name] = "installed"]

\* for installable in to_install { copy(..).await?; }: one iteration.
Install ==
    /\ pc = "install" /\ idx <= Len(to_install)
    /\ \E io_ok \in BOOLEAN :
         IF io_ok
         THEN /\ root' = CopyToRoot(root, to_install[idx])
              /\ idx' = idx + 1
              /\ UNCHANGED <<pc, ret>>
         ELSE /\ pc' = "returned"
              /\ ret' = "IoError"
              /\ UNCHANGED <<root, idx>>
    /\ UNCHANGED <<resolutionVars, syncVars>>
    /\ UNCHANGED <<user_exists, user_files, old_files, root0, old0>>

\* A return that never bails.
FinalResult_AlwaysOk(had_errors) == "Ok"

\* A return whose test of the flag is inverted.
FinalResult_Inverted(had_errors) == IF had_errors THEN "Ok" ELSE "ResolveError"

\* if error.load(..) { bail!(..) } Ok(())
FinalResult(had_errors) == IF had_errors THEN "ResolveError" ELSE "Ok"

Return ==
    /\ pc = "install" /\ idx > Len(to_install)
    /\ pc' = "returned"
    /\ ret' = FinalResult(error)
    /\ UNCHANGED <<resolutionVars, fsVars, syncVars, idx>>

----------------------------------------------------------------------------

Next ==
    \/ Spawn
    \/ EndSpawn
    \/ \E t \in DOMAIN tasks : TaskFetch1(t)
    \/ \E t \in DOMAIN tasks : TaskFetch2(t)
    \/ \E t \in DOMAIN tasks : TaskMatch(t)
    \/ Join
    \/ Unwrap
    \/ ScanUser
    \/ \E f \in Names : ReconcileEntry(f)
    \/ EndReconcile
    \/ SpawnDownloads
    \/ \E k \in DOMAIN dl_tasks : Download(k)
    \/ JoinDownload
    \/ EndJoinDownload
    \/ Install
    \/ Return

Spec == Init /\ [][Next]_vars

\* The runtime keeps running every task that can take a step and upgrade
\* itself; every awaited request returns.
FairSpec == Spec /\ WF_vars(Next)

----------------------------------------------------------------------------
(* Properties.                                                             *)

\* Every handle has been awaited and to_download is not yet unwrapped.
ResolutionOver == pc = "join" /\ idx > Len(mods) /\ ret = "none"

Ended(t) == tasks[t].pc = "done"
Failed(t) == Ended(t) /\ tasks[t].result.tag = "Err"
Succeeded(t) == Ended(t) /\ tasks[t].result.tag = "Ok"
InAccumulator(d) == \E k \in DOMAIN to_download : to_download[k] = d

\* C1: when the resolution is over and some mod's fetch failed with an error
\* other than the rate limit, every other mod's task has run to its end, the
\* Downloadable of every other mod whose fetch succeeded is in the
\* accumulator, upgrade has not returned, and the error flag is set.
C1_FailureDoesNotStopSiblings ==
    ResolutionOver =>
        \A t \in DOMAIN tasks :
            (Failed(t) /\ tasks[t].result.err # "RateLimited") =>
                /\ error
                /\ \A u \in DOMAIN tasks \ {t} :
                     /\ Ended(u)
                     /\ Succeeded(u) => InAccumulator(tasks[u].result.value)

C1_Witness ==
    /\ ResolutionOver
    /\ \E t, u \in DOMAIN tasks :
         /\ Failed(t) /\ tasks[t].result.err = "NoCompatibleFile"
         /\ Succeeded(u)

\* C2: in the resolved set no two Downloadables belong to the same project,
\* whatever the profile, one naming a project twice included.
C2_OneDownloadablePerItem ==
    ResolutionOver =>
        \A i, j \in DOMAIN to_download :
            i # j => ItemOf(to_download[i]) # ItemOf(to_download[j])

\* C3: with every request returning and every task scheduled, all the
\* resolution tasks end and are joined, and upgrade returns.
C3_UpgradeReturns == <>ResolutionOver /\ <>(ret # "none")

C3_Witness == ret = "Ok" /\ Len(mods) = MaxMods /\ error = FALSE

\* C4: a fetch that failed with the rate limit is fatal: upgrade never gets
\* past the join loop to carry on with a resolution one of whose tasks ended
\* with that error.
C4_RateLimitIsFatal ==
    ResolutionOver =>
        \A t \in DOMAIN tasks : ~(Failed(t) /\ tasks[t].result.err = "RateLimited")

\* upgrade returned from its last statement: no I/O failed.
Completed == ret \in {"Ok", "ResolveError"}

Present(name) == root[name] # "absent"

\* Every Downloadable left to download was requested and written, and every
\* entry left to install was copied.
SyncPerformed ==
    /\ \A k \in DOMAIN to_download :
         /\ to_download[k].download_url \in fetched
         /\ root[to_download[k].filename] \in {"downloaded", "installed"}
    /\ \A k \in DOMAIN resolved :
         \/ resolved[k].download_url \in fetched
         \/ resolved[k].filename \in root0
    /\ \A k \in DOMAIN to_install : root[to_install[k]] = "installed"

\* C5: the error flag at the end of the resolution tells whether some mod
\* failed; upgrade returns the aggregated error only with the flag set and
\* Ok only with it clear, and in both cases only after the downloads and
\* the copies were performed.
C5_AggregatedErrorAfterDownloads ==
    /\ ResolutionOver => (error <=> \E t \in DOMAIN tasks : Failed(t))
    /\ ret = "ResolveError" => (error /\ SyncPerformed)
    /\ ret = "Ok" => (~error /\ SyncPerformed)

C5_Witness ==
    /\ ret = "ResolveError"
    /\ \E k \in DOMAIN to_download : to_download[k].download_url \in fetched
    /\ \E k \in DOMAIN to_install : root[to_install[k]] = "installed"

\* C6: when the file fetched for a mod declares a dependency on a project the
\* profile does not hold, the resolved set holds a Downloadable of that project.
C6_DependenciesResolved ==
    ResolutionOver =>
        \A t \in DOMAIN tasks :
            Succeeded(t) =>
                \A y \in Dependencies(mods[t]) :
                    (\A u \in DOMAIN mods : mods[u] # y) =>
                        \E k \in DOMAIN to_download : ItemOf(to_download[k]) = y

\* C7: a resolved Downloadable whose filename is that of a regular file the
\* output directory already held is never requested.
C7_PresentFileNotFetched ==
    \A k \in DOMAIN resolved :
        resolved[k].filename \in root0 => resolved[k].download_url \notin fetched

ReconciliationOver == pc \in {"spawn_download", "join_download", "install"}

Unrecognized(name) ==
    /\ name \in root0
    /\ \A k \in DOMAIN resolved : resolved[k].filename # name
    /\ name \notin user_files

\* C8: once the directory is reconciled, every file it held that is neither a
\* resolved Downloadable's nor an install candidate's is in .old and no
\* longer in the root, and every file it held is still in one of the two.
C8_UnrecognizedQuarantined ==
    ReconciliationOver =>
        /\ \A name \in root0 :
             Unrecognized(name) => (name \in old_files /\ ~Present(name))
        /\ \A name \in root0 : Present(name) \/ name \in old_files
        /\ old0 \subseteq old_files

\* C9: when upgrade went through its downloads and copies with no I/O error,
\* the root holds a file named as each resolved Downloadable.
C9_ResolvedFilesPresent ==
    Completed => \A k \in DOMAIN resolved : Present(resolved[k].filename)

C9_Witness ==
    /\ ret = "Ok"
    /\ \E k \in DOMAIN resolved :
         resolved[k].filename \in root0 /\ root[resolved[k].filename] = "original"
    /\ \E k \in DOMAIN resolved : root[resolved[k].filename] = "downloaded"

\* C10: nothing upgrade does after it listed `user` changes what `user`
\* holds, and when upgrade went through with no I/O error the root holds a
\* file named as each file of `user`.
C10_UserFilesKeptAndInstalled ==
    /\ [](Completed => \A name \in user_files : Present(name))
    /\ [][pc # "scan_user" => UNCHANGED <<user_exists, user_files>>]_vars

C10_Witness ==
    /\ ret = "Ok"
    /\ \E name \in user_files : root[name] = "installed"
    /\ \E name \in root0 : name \in old_files /\ ~Present(name)

\* A limit a user may configure for the fetches in flight; upgrade.rs holds
\* no value of its own for it.
ConcurrencyLimit == 1

\* The platform fetches issued and not yet returned.
InFlight == {t \in DOMAIN tasks : tasks[t].pc \in {"fetch1", "fetch2"}}

\* C11: at every moment of the resolution the number of platform fetches in
\* flight is at most the configured limit.
C11_InFlightWithinLimit == Cardinality(InFlight) <= ConcurrencyLimit

\* C12: with a profile of no mod, no task is spawned, the download set is
\* empty, the error flag stays clear and upgrade does not return the
\* aggregated resolution error.
C12_EmptyProfile ==
    Len(mods) = 0 =>
        /\ tasks = <<>>
        /\ to_download = <<>> /\ resolved = <<>>
        /\ dl_tasks = <<>> /\ fetched = {}
        /\ ~error
        /\ ret # "ResolveError"

C12_Witness == Len(mods) = 0 /\ ret = "Ok" /\ user_exists

\* C13: with the loader that disallows manual installs (Quilt) the install
\* list is empty, whatever `user` holds.
C13_NoManualInstallForLoader == mod_loader = "Quilt" => to_install = <<>>

\* C14: upgrade leaves the join loop for the reconciliation only when every
\* task has ended, so try_unwrap never fails, and from then on no
\* Downloadable is appended to to_download.
C14_UnwrapAfterAllTasks ==
    /\ [](ret # "Panic")
    /\ [][(pc = "join" /\ pc' # "join") =>
             \A t \in DOMAIN tasks : tasks[t].pc = "done"]_vars
    /\ [][pc \notin {"spawn", "join"} =>
             Len(to_download') <= Len(to_download)]_vars

C14_Witness ==
    pc = "reconcile" /\ Len(resolved) >= 1 /\ error /\ Len(mods) = 2

\* Number of positions of seq holding d.
Occurrences(seq, d) == Cardinality({k \in DOMAIN seq : seq[k] = d})

\* C15: when every task is joined, to_download holds one Downloadable for
\* each mod whose final result was Ok and nothing else, the entries and the
\* failed mods add up to the mods of the profile, and the error flag is set
\* exactly when some mod's final result was Err.
C15_NoLostUpdate ==
    ResolutionOver =>
        /\ \A t \in DOMAIN tasks : Ended(t)
        /\ \A t \in DOMAIN tasks :
             Succeeded(t) =>
                 Occurrences(to_download, tasks[t].result.value) =
                     Cardinality({u \in DOMAIN tasks :
                         Succeeded(u) /\ tasks[u].result.value = tasks[t].result.value})
        /\ \A k \in DOMAIN to_download :
             \E t \in DOMAIN tasks :
                 Succeeded(t) /\ tasks[t].result.value = to_download[k]
        /\ Len(to_download) + Cardinality({t \in DOMAIN tasks : Failed(t)})
             = Len(mods)
        /\ error <=> \E t \in DOMAIN tasks : Failed(t)

C15_Witness ==
    /\ ResolutionOver
    /\ Len(to_download) = 2
    /\ to_download[1] = to_download[2]

\* C16: an upgrade in which the move of an unrecognized file into .old
\* failed does not go on to return from its last statement: whenever upgrade
\* returned Ok or the aggregated resolution error, every unrecognized file the
\* root held has left the root and is in .old.
C16_FailedMoveIsHardFailure ==
    Completed =>
        \A name \in root0 :
            Unrecognized(name) => (~Present(name) /\ name \in old_files)

\* The tasks whose first fetch has returned.
FirstFetchReturned(t) == tasks[t].first # NoResult

\* C17: a task fetches again with the Fabric loader exactly when its first
\* fetch returned NoCompatibleFile and the profile's loader is Quilt, the
\* result of that fetch is the task's result, and the notice flag is set, and
\* the notice printed, exactly when the fallback fetch of some mod succeeded.
C17_FabricFallback ==
    /\ \A t \in DOMAIN tasks :
         FirstFetchReturned(t) =>
            /\ (tasks[t].loader = "Fabric") <=>
                   (/\ tasks[t].first.tag = "Err"
                    /\ tasks[t].first.err = "NoCompatibleFile"
                    /\ mod_loader = "Quilt")
            /\ tasks[t].backwards_compat <=> (tasks[t].loader = "Fabric")
            /\ tasks[t].loader = "Fabric" => tasks[t].fetches = 2
            /\ (tasks[t].loader = "Fabric" /\ tasks[t].pc \in {"match", "done"}) =>
                   tasks[t].result = tasks[t].last
    /\ ResolutionOver =>
         (backwards_compat_msg <=>
             \E t \in DOMAIN tasks : Succeeded(t) /\ tasks[t].loader = "Fabric")
    /\ pc \in {"spawn", "join"} => ~notice_printed
    /\ (pc \notin {"spawn", "join"} /\ ret # "Panic") =>
         notice_printed = backwards_compat_msg

C17_Witness ==
    /\ ResolutionOver
    /\ \E t \in DOMAIN tasks : Succeeded(t) /\ tasks[t].loader = "Fabric"
    /\ \E t \in DOMAIN tasks : Failed(t) /\ tasks[t].loader = "Fabric"

\* C18: a task issues at most two fetches and ends with the result of the
\* last one; a CurseForge fetch that returned a status error is followed by
\* one more fetch with the profile's loader, a second fetch is issued for a
\* Fabric fallback or a status error only, and whatever the second fetch
\* returns is the task's result.
C18_BoundedRetry ==
    \A t \in DOMAIN tasks :
        /\ tasks[t].fetches <= 2
        /\ tasks[t].pc \in {"match", "done"} => tasks[t].result = tasks[t].last
        /\ FirstFetchReturned(t) =>
             /\ IsStatusError(Platform(mods[t]), tasks[t].first) =>
                   /\ tasks[t].fetches = 2
                   /\ tasks[t].loader = mod_loader
                   /\ ~tasks[t].backwards_compat
             /\ (tasks[t].fetches = 2) <=>
                   \/ IsStatusError(Platform(mods[t]), tasks[t].first)
                   \/ NeedsFabricFallback(tasks[t].first, mod_loader)
        /\ (Ended(t) /\ tasks[t].fetches = 2 /\ tasks[t].last.tag = "Err") =>
             (Failed(t) /\ error)

C18_Witness ==
    /\ ResolutionOver
    /\ \E t \in DOMAIN tasks :
         /\ tasks[t].first = ErrResult("HttpStatus")
         /\ tasks[t].last = ErrResult("HttpStatus")
         /\ tasks[t].fetches = 2
         /\ Failed(t)
    /\ \E t \in DOMAIN tasks :
         /\ tasks[t].first = ErrResult("HttpStatus")
         /\ Succeeded(t)

\* C19: a copy from `user` is made only when every download task has been
\* joined without error; a name that a file of `user` and a resolved
\* Downloadable share is, when upgrade went through, held by the copy of the
\* `user` file; and when a download task failed upgrade returns the download
\* error, with no copy made, and neither Ok nor the resolution error.
C19_InstallAfterDownloads ==
    /\ (\E name \in Names : root[name] = "installed") =>
          /\ pc \in {"install", "returned"}
          /\ \A k \in DOMAIN dl_tasks :
               dl_tasks[k].pc = "done" /\ ~dl_tasks[k].failed
    /\ Completed =>
          \A name \in user_files :
              (\E k \in DOMAIN resolved : resolved[k].filename = name) =>
                  root[name] = "installed"
    /\ (ret # "none" /\ \E k \in DOMAIN dl_tasks : dl_tasks[k].failed) =>
          ret = "DownloadError"
    /\ ret = "DownloadError" =>
          /\ \E k \in DOMAIN dl_tasks : dl_tasks[k].failed
          /\ \A name \in Names : root[name] # "installed"

C19_Witness ==
    /\ Completed
    /\ "a.jar" \in user_files /\ "a.jar" \notin root0
    /\ \E k \in DOMAIN resolved :
         resolved[k].filename = "a.jar" /\ resolved[k].download_url \in fetched
    /\ root["a.jar"] = "installed"

====
